---- MODULE Spec2Model ----
(***************************************************************************)
(* Model of the ShopHub backend (src/backend/app.py): the in-memory table   *)
(* of verification tickets, the SQLite tables users and orders, the        *)
(* Firebase identity provider and the Firestore carts as the code uses     *)
(* them, and the HTTP handlers of registration, login, carts and orders.   *)
(***************************************************************************)
EXTENDS Integers, Sequences, FiniteSets, TLC

VARIABLES
    verification_codes, \* dict: lower-cased email -> ticket
    users,              \* rows of the SQLite table users, in insertion order
    firebase_users,     \* accounts of the identity provider, by normalised email
    FIREBASE_WEB_API_KEY, \* TRUE iff a web API key was found at startup
    now,                \* time.time(), in seconds
    requests,           \* the number of requests handled so far
    last,               \* the last request handled and the response it got
    inflight,           \* the requests a worker thread is in the middle of handling
    firestore_carts,    \* documents of the Firestore collection carts, by lower-cased email
    orders              \* rows of the SQLite table orders, in insertion order

vars == <<verification_codes, users, firebase_users, FIREBASE_WEB_API_KEY, now, requests, last,
          inflight, firestore_carts, orders>>

----------------------------------------------------------------------------
(* Bounds of the exploration *)

\* the clock advances at most this many times
MaxTicks == 2

\* at most this many requests are handled
MaxRequests == 3

\* at most this many requests are being handled at the same time
MaxInflight == 2

----------------------------------------------------------------------------
(* Program constants *)

VERIFICATION_CODE_EXPIRY == 600

ADMIN_EMAIL == "admin@shophub.com"

\* the clock advances by one expiry period at a time
TickStep == VERIFICATION_CODE_EXPIRY

----------------------------------------------------------------------------
(* Input values *)

\* a missing JSON field (None) and an empty string are both falsy
Missing == ""

Emails == {"u@x.com", "U@x.com", "v@x.com", "admin@shophub.com", "Admin@shophub.com"}

Names == {"Ann", "Bob "}

Passwords == {"pw1111", "pw2222"}

Phones == {"555", "556"}

\* generate_verification_code draws six random digits
Codes == {"111111", "222222"}

\* str.lower() on the emails of the model
Lower(e) ==
    CASE e = "U@x.com" -> "u@x.com"
      [] e = "Admin@shophub.com" -> "admin@shophub.com"
      [] OTHER -> e

\* email.split('@')[0]
LocalPart(e) ==
    CASE e = "u@x.com" -> "u"
      [] e = "U@x.com" -> "U"
      [] e = "v@x.com" -> "v"
      [] e = "admin@shophub.com" -> "admin"
      [] e = "Admin@shophub.com" -> "Admin"
      [] OTHER -> e

\* str.strip() on the names of the model
Strip(n) == IF n = "Bob " THEN "Bob" ELSE n

\* the password kept as it was submitted
hash_password_Clear(password) == password

\* hashlib.sha256(password.encode()).hexdigest(): one-way, injective on the model's passwords
hash_password(password) == "sha256:" \o password

\* the stored value compared with the candidate itself
verify_password_Plain(stored_hash, candidate) ==
    IF stored_hash = "" THEN FALSE ELSE stored_hash = candidate

verify_password(stored_hash, candidate) ==
    IF stored_hash = "" THEN FALSE ELSE stored_hash = hash_password(candidate)

----------------------------------------------------------------------------
(* Response messages and statuses *)

MsgFieldsRequired == "All fields are required"
MsgCodeRequired == "Verification code is required"
MsgAlreadyRegistered == "Email already registered"
MsgReservedEmail == "This email is reserved for admin use."
MsgCodeSent == "Verification code sent to your email. Please check your inbox."
MsgDeliveryFailed == "Failed to send verification email. Please try again."
MsgCodeNotFound == "Verification code not found. Please request a new code."
MsgCodeExpired == "Verification code has expired. Please request a new code."
MsgCodeMismatch == "Invalid verification code. Please try again."
MsgDataMismatch == "Registration data mismatch. Please start over."
MsgRegistrationFailed == "Registration failed"
MsgRegistered == "registered"
MsgLoginRequired == "Email and password are required"
MsgInvalidCredentials == "Invalid email or password"
MsgAccountDisabled == "Your account has been disabled. Please contact support."
MsgFirebaseOther == "Unable to sign in with Firebase"
MsgUnreachable == "Authentication service is unreachable. Please try again shortly."
MsgLoggedIn == "logged in"

NoMail == [to |-> Missing, code |-> Missing]

\* a request (its JSON fields; code is Missing where the endpoint takes none)
Request(op, name, email, password, phone, code) ==
    [op |-> op, name |-> name, email |-> email, password |-> password,
     phone |-> phone, code |-> code]

\* firebase_message = None, firebase_status = None: no sign-in was attempted
NoFirebaseResult == [success |-> FALSE, message |-> Missing, status |-> 0]

\* every failure answered with status 400
Response_BadRequest(req, success, message, status, calls, mail) ==
    [req |-> req, success |-> success, message |-> message,
     status |-> IF success THEN status ELSE 400, calls |-> calls, mail |-> mail,
     remote |-> NoFirebaseResult]

\* the request handled and its response: success, message and HTTP status, with the
\* provider and mail-server calls the handler made, the message it delivered and
\* what the provider's sign-in returned to it
Response(req, success, message, status, calls, mail) ==
    [req |-> req, success |-> success, message |-> message,
     status |-> status, calls |-> calls, mail |-> mail, remote |-> NoFirebaseResult]

\* the response of a login_user that got firebase_result from the provider
LoginResponse(req, success, message, status, calls, firebase_result) ==
    [Response(req, success, message, status, calls, NoMail) EXCEPT !.remote = firebase_result]

----------------------------------------------------------------------------
(* The users table *)

\* the lookup made with the lower-cased address, the rows being stored as submitted
UserRows_Lowered(email) == {i \in 1..Len(users) : users[i].email = Lower(email)}

\* SELECT * FROM users WHERE email = ?   (exact, case-sensitive comparison)
UserRows(email) == {i \in 1..Len(users) : users[i].email = email}

fetch_local_user(email) == UserRows(email) # {}

TheUser(email) == users[CHOOSE i \in UserRows(email) : TRUE]

\* INSERT INTO users (name, email, password, phone): id is the autoincrement key
\* and the column cart takes its default '[]'
InsertUser(name, email, password_hash, phone) ==
    Append(users, [id |-> Len(users) + 1, name |-> name, email |-> email,
                   password |-> password_hash, phone |-> phone, cart |-> "[]"])

----------------------------------------------------------------------------
(* The ticket table *)

Ticket(code, expires_at, name, password, phone) ==
    [code |-> code, expires_at |-> expires_at, name |-> name,
     password |-> password, phone |-> phone]

\* a ticket stored only where none is stored yet (dict.setdefault)
StoreTicket_KeepsOld(table, key, ticket) ==
    [k \in DOMAIN table \cup {key} |-> IF k \in DOMAIN table THEN table[k] ELSE ticket]

\* table[key] = ticket
StoreTicket(table, key, ticket) ==
    [k \in DOMAIN table \cup {key} |-> IF k = key THEN ticket ELSE table[k]]

\* a removal that empties the whole table
PopTicket_All(table, key) == [k \in {} |-> table[k]]

\* table.pop(key, None)
PopTicket(table, key) ==
    [k \in DOMAIN table \ {key} |-> table[k]]

\* a ticket that expires at the instant expires_at
IsExpired_AtBoundary(stored_data) == now >= stored_data.expires_at

\* a ticket that never expires
IsExpired_Never(stored_data) == FALSE

\* time.time() > stored_data['expires_at']
IsExpired(stored_data) == now > stored_data.expires_at

\* the comparison of the codes, inverted
CodeDiffers_Inverted(stored_data, verification_code) == stored_data.code = verification_code

\* stored_data['code'] != verification_code
CodeDiffers(stored_data, verification_code) == stored_data.code # verification_code

\* the comparison of the data, with the password hashed before it is compared
DataDiffers_Hashed(stored_data, name, password, phone) ==
    \/ stored_data.name # name
    \/ stored_data.password # hash_password(password)
    \/ stored_data.phone # phone

\* the resubmitted name, password or phone differs from the stored one
DataDiffers(stored_data, name, password, phone) ==
    \/ stored_data.name # name
    \/ stored_data.password # password
    \/ stored_data.phone # phone

\* no address reserved
IsAdminEmail_Never(email) == FALSE

\* the administrator address compared case-sensitively
IsAdminEmail_CaseSensitive(email) == email = ADMIN_EMAIL

\* email.lower() == ADMIN_EMAIL.lower()
IsAdminEmail(email) == Lower(email) = Lower(ADMIN_EMAIL)

\* the phone left out of the required fields
FieldMissing_PhoneOptional(name, email, password, phone) ==
    Missing \in {name, email, password}

\* not all([name, email, password, phone])
FieldMissing(name, email, password, phone) ==
    Missing \in {name, email, password, phone}

\* an expired ticket left in the table
AfterExpired_Kept(table, key) == table

\* the ticket table once the expiry of key's ticket was detected
AfterExpired(table, key) == PopTicket(table, key)

\* a wrong code consuming the ticket
AfterCodeMismatch_Popped(table, key) == PopTicket(table, key)

\* the ticket table after a wrong code was submitted for key
AfterCodeMismatch(table, key) == table

\* the ticket table after data that differs from the ticket's was submitted for key
AfterDataMismatch(table, key) == table

\* no rollback of the ticket when the mail fails
AfterDeliveryFailure_Kept(table, key) == table

\* the ticket table after the verification email could not be sent
AfterDeliveryFailure(table, key) == PopTicket(table, key)

\* the ticket left in the table once the account is created
AfterCreateUser_Kept(table, key) == table

\* the ticket table after register_user created the account and inserted the row
AfterCreateUser(table, key) == PopTicket(table, key)

\* the ticket left in the table when create_user raises
AfterCreateUserError_Kept(table, key) == table

\* the ticket table after register_user's try block ended in an exception
AfterCreateUserError(table, key) == PopTicket(table, key)

----------------------------------------------------------------------------
(* The identity provider, as the code calls it *)

\* Firebase Authentication stores email addresses lower-cased
ProviderKey(email) == Lower(email)

ProviderAccount(password, display_name) ==
    [password |-> password, display_name |-> display_name, phone_number |-> Missing]

\* firebase_auth.create_user(email, password, display_name)
CreateAccount(email, password, display_name) ==
    [k \in DOMAIN firebase_users \cup {ProviderKey(email)} |->
        IF k = ProviderKey(email) THEN ProviderAccount(password, display_name)
        ELSE firebase_users[k]]

\* the provider's EMAIL_NOT_FOUND passed on under a message of its own
sign_in_with_firebase_Revealing(email, password, net) ==
    LET k == Lower(email) IN
    IF net = "down"
    THEN [success |-> FALSE, message |-> MsgUnreachable, status |-> 503]
    ELSE IF net = "other"
    THEN [success |-> FALSE, message |-> MsgFirebaseOther, status |-> 401]
    ELSE IF k \notin DOMAIN firebase_users
    THEN [success |-> FALSE, message |-> "EMAIL_NOT_FOUND", status |-> 401]
    ELSE IF net = "disabled"
    THEN [success |-> FALSE, message |-> MsgAccountDisabled, status |-> 401]
    ELSE IF firebase_users[k].password # password
    THEN [success |-> FALSE, message |-> MsgInvalidCredentials, status |-> 401]
    ELSE [success |-> TRUE, message |-> Missing, status |-> 200]

\* how a sign-in request to the provider can end: "ok" the provider answers by the
\* account's password, "disabled" the account was disabled in the provider's
\* console (USER_DISABLED), "other" the provider answers an error code the code has
\* no message for, "down" the request raises RequestException
SignInOutcomes == {"ok", "disabled", "other", "down"}

sign_in_with_firebase(email, password, net) ==
    LET k == ProviderKey(email) IN
    IF net = "down"
    THEN [success |-> FALSE, message |-> MsgUnreachable, status |-> 503]
    ELSE IF net = "other"
    THEN [success |-> FALSE, message |-> MsgFirebaseOther, status |-> 401]
    ELSE IF k \notin DOMAIN firebase_users
    THEN [success |-> FALSE, message |-> MsgInvalidCredentials, status |-> 401]
    ELSE IF net = "disabled"
    THEN [success |-> FALSE, message |-> MsgAccountDisabled, status |-> 401]
    ELSE IF firebase_users[k].password # password
    THEN [success |-> FALSE, message |-> MsgInvalidCredentials, status |-> 401]
    ELSE [success |-> TRUE, message |-> Missing, status |-> 200]

\* a local check that accepts any password for an email that has a row
authenticate_locally_AnyPassword(email, password) ==
    IF ~fetch_local_user(email)
    THEN [success |-> FALSE, message |-> MsgInvalidCredentials, status |-> 401]
    ELSE [success |-> TRUE, message |-> Missing, status |-> 200]

\* authenticate_locally(email, password): the row of exactly this email, if any,
\* and its stored hash against the password
authenticate_locally(email, password) ==
    IF ~fetch_local_user(email)
    THEN [success |-> FALSE, message |-> MsgInvalidCredentials, status |-> 401]
    ELSE IF ~verify_password(TheUser(email).password, password)
    THEN [success |-> FALSE, message |-> MsgInvalidCredentials, status |-> 401]
    ELSE [success |-> TRUE, message |-> Missing, status |-> 200]

\* the mirror refreshed with the password the provider accepted
ensure_local_user_record_Rehash(email, password, profile_ok) ==
    IF fetch_local_user(email)
    THEN [i \in 1..Len(users) |->
             IF users[i].email = email
             THEN [users[i] EXCEPT !.password = hash_password(password)]
             ELSE users[i]]
    ELSE InsertUser(LocalPart(email), email, hash_password(password), Missing)

\* a row inserted without looking for an existing one
ensure_local_user_record_Always(email, password, profile_ok) ==
    InsertUser(LocalPart(email), email, hash_password(password), Missing)

\* the users table after ensure_local_user_record(email, password, firebase_uid);
\* profile_ok: firebase_auth.get_user answered
ensure_local_user_record(email, password, profile_ok) ==
    IF fetch_local_user(email) THEN users
    ELSE LET acct == firebase_users[ProviderKey(email)]
             name == IF profile_ok /\ acct.display_name # Missing
                     THEN acct.display_name ELSE LocalPart(email)
             phone == IF profile_ok /\ acct.phone_number # Missing
                      THEN acct.phone_number ELSE Missing
         IN InsertUser(name, email, hash_password(password), phone)

\* the local failure answered whatever the provider returned
ReconcileFailure_LocalOnly(local_result, firebase_result) ==
    [message |-> local_result.message, status |-> local_result.status]

\* the provider's message kept only for its statuses of 500 and more
ReconcileFailure_OutageOnly(local_result, firebase_result) ==
    IF firebase_result.message # Missing /\ firebase_result.status # 0
       /\ firebase_result.status >= 500
    THEN [message |-> firebase_result.message, status |-> firebase_result.status]
    ELSE [message |-> local_result.message, status |-> local_result.status]

\* the message and status of a login that failed on both paths
ReconcileFailure(local_result, firebase_result) ==
    IF firebase_result.message # Missing /\ firebase_result.status # 0
       /\ firebase_result.status >= 500
    THEN [message |-> firebase_result.message, status |-> firebase_result.status]
    ELSE IF local_result.status = 401 /\ firebase_result.message # Missing
            /\ firebase_result.status = 401
    THEN [message |-> firebase_result.message, status |-> local_result.status]
    ELSE [message |-> local_result.message, status |-> local_result.status]

----------------------------------------------------------------------------
(* The handlers *)

\* POST /api/users/send-verification
send_verification(name, email, password, phone) ==
    LET req == Request("send_verification", name, email, password, phone, Missing)
        key == Lower(email)
    IN
    /\ UNCHANGED <<users, firebase_users, FIREBASE_WEB_API_KEY, firestore_carts, orders, now>>
    /\ IF FieldMissing(name, email, password, phone)
       THEN /\ last' = Response(req, FALSE, MsgFieldsRequired, 400, {}, NoMail)
            /\ UNCHANGED verification_codes
       ELSE IF fetch_local_user(email)
       THEN /\ last' = Response(req, FALSE, MsgAlreadyRegistered, 400, {}, NoMail)
            /\ UNCHANGED verification_codes
       ELSE IF IsAdminEmail(email)
       THEN /\ last' = Response(req, FALSE, MsgReservedEmail, 400, {}, NoMail)
            /\ UNCHANGED verification_codes
       ELSE \* code: the digits generate_verification_code draws;
            \* delivered: what send_verification_email returns
            \E code \in Codes, delivered \in BOOLEAN :
              LET stored == StoreTicket(verification_codes, key,
                                Ticket(code, now + VERIFICATION_CODE_EXPIRY,
                                       name, password, phone))
              IN
              IF delivered
              THEN /\ verification_codes' = stored
                   /\ last' = Response(req, TRUE, MsgCodeSent, 200, {"smtp"},
                                       [to |-> email, code |-> code])
              ELSE /\ verification_codes' = AfterDeliveryFailure(stored, key)
                   /\ last' = Response(req, FALSE, MsgDeliveryFailed, 500, {"smtp"}, NoMail)

\* POST /api/users/register
register_user(name, email, password, phone, verification_code) ==
    LET req == Request("register_user", name, email, password, phone, verification_code)
        email_lower == Lower(email)
        stored_data == verification_codes[email_lower]
    IN
    /\ UNCHANGED <<FIREBASE_WEB_API_KEY, firestore_carts, orders, now>>
    /\ IF FieldMissing(name, email, password, phone)
       THEN /\ last' = Response(req, FALSE, MsgFieldsRequired, 400, {}, NoMail)
            /\ UNCHANGED <<verification_codes, users, firebase_users>>
       ELSE IF verification_code = Missing
       THEN /\ last' = Response(req, FALSE, MsgCodeRequired, 400, {}, NoMail)
            /\ UNCHANGED <<verification_codes, users, firebase_users>>
       ELSE IF fetch_local_user(email)
       THEN /\ last' = Response(req, FALSE, MsgAlreadyRegistered, 400, {}, NoMail)
            /\ UNCHANGED <<verification_codes, users, firebase_users>>
       ELSE IF email_lower \notin DOMAIN verification_codes
       THEN /\ last' = Response(req, FALSE, MsgCodeNotFound, 400, {}, NoMail)
            /\ UNCHANGED <<verification_codes, users, firebase_users>>
       ELSE IF IsExpired(stored_data)
       THEN /\ verification_codes' = AfterExpired(verification_codes, email_lower)
            /\ last' = Response(req, FALSE, MsgCodeExpired, 400, {}, NoMail)
            /\ UNCHANGED <<users, firebase_users>>
       ELSE IF CodeDiffers(stored_data, verification_code)
       THEN /\ verification_codes' = AfterCodeMismatch(verification_codes, email_lower)
            /\ last' = Response(req, FALSE, MsgCodeMismatch, 400, {}, NoMail)
            /\ UNCHANGED <<users, firebase_users>>
       ELSE IF DataDiffers(stored_data, name, password, phone)
       THEN /\ verification_codes' = AfterDataMismatch(verification_codes, email_lower)
            /\ last' = Response(req, FALSE, MsgDataMismatch, 400, {}, NoMail)
            /\ UNCHANGED <<users, firebase_users>>
       ELSE \* provider_ok: firebase_auth.create_user raised nothing but, for an
            \* address that has an account, EmailAlreadyExistsError
            \E provider_ok \in BOOLEAN :
              IF ~provider_ok
              THEN /\ verification_codes' = AfterCreateUserError(verification_codes, email_lower)
                   /\ last' = Response(req, FALSE, MsgRegistrationFailed, 500,
                                       {"create_user"}, NoMail)
                   /\ UNCHANGED <<users, firebase_users>>
              ELSE IF ProviderKey(email) \in DOMAIN firebase_users
              THEN /\ verification_codes' = AfterCreateUserError(verification_codes, email_lower)
                   /\ last' = Response(req, FALSE, MsgAlreadyRegistered, 400,
                                       {"create_user"}, NoMail)
                   /\ UNCHANGED <<users, firebase_users>>
              ELSE /\ firebase_users' = CreateAccount(email, password, Strip(name))
                   /\ users' = InsertUser(name, email, hash_password(password), phone)
                   /\ verification_codes' = AfterCreateUser(verification_codes, email_lower)
                   /\ last' = Response(req, TRUE, MsgRegistered, 200, {"create_user"}, NoMail)

\* the part of login_user that runs when no web API key is configured, or after
\* the provider refused the sign-in with firebase_result
LocalLogin(req, firebase_result, remote_calls) ==
    LET local_result == authenticate_locally(req.email, req.password)
        failure == ReconcileFailure(local_result, firebase_result)
    IN
    /\ UNCHANGED users
    /\ IF local_result.success
       THEN last' = LoginResponse(req, TRUE, MsgLoggedIn, 200, remote_calls, firebase_result)
       ELSE last' = LoginResponse(req, FALSE, failure.message, failure.status,
                                  remote_calls, firebase_result)

\* POST /api/users/login
login_user(email, password) ==
    LET req == Request("login_user", Missing, email, password, Missing, Missing) IN
    /\ UNCHANGED <<verification_codes, firebase_users, FIREBASE_WEB_API_KEY, firestore_carts, orders, now>>
    /\ IF email = Missing \/ password = Missing
       THEN /\ last' = Response(req, FALSE, MsgLoginRequired, 400, {}, NoMail)
            /\ UNCHANGED users
       ELSE IF ~FIREBASE_WEB_API_KEY
       THEN LocalLogin(req, NoFirebaseResult, {})
       ELSE \* net: how the provider's sign-in request ends
            \E net \in SignInOutcomes :
              LET firebase_result == sign_in_with_firebase(email, password, net) IN
              IF ~firebase_result.success
              THEN LocalLogin(req, firebase_result, {"signInWithPassword"})
              ELSE IF fetch_local_user(email)
              THEN /\ users' = ensure_local_user_record(email, password, TRUE)
                   /\ last' = LoginResponse(req, TRUE, MsgLoggedIn, 200,
                                            {"signInWithPassword"}, firebase_result)
              ELSE \* profile_ok: firebase_auth.get_user answered
                   \E profile_ok \in BOOLEAN :
                     /\ users' = ensure_local_user_record(email, password, profile_ok)
                     /\ last' = LoginResponse(req, TRUE, MsgLoggedIn, 200,
                                              {"signInWithPassword", "get_user"},
                                              firebase_result)

\* time passes. The handlers read the clock only to stamp a ticket and to compare
\* it with a ticket's expires_at, so time is let pass only while a ticket is
\* outstanding: with none, a later clock is the same state shifted in time.
Tick ==
    /\ now < MaxTicks * TickStep
    /\ DOMAIN verification_codes # {}
    /\ now' = now + TickStep
    /\ UNCHANGED <<verification_codes, users, firebase_users, FIREBASE_WEB_API_KEY, firestore_carts, orders, requests, last,
                   inflight>>

\* a restart that keeps the ticket table
Restart_KeepsTickets ==
    /\ last.req.op # "start"
    /\ last' = Response(Request("start", Missing, Missing, Missing, Missing, Missing),
                        TRUE, Missing, 0, {}, NoMail)
    /\ UNCHANGED <<verification_codes, users, firebase_users, FIREBASE_WEB_API_KEY, firestore_carts, orders, now, requests,
                   inflight>>

\* the process is restarted: the module is executed again, verification_codes = {}
\* with it, while the rows of ecommerce.db (CREATE TABLE IF NOT EXISTS) and the
\* provider's accounts stay. A restart before any request was handled since the
\* start changes nothing, so it is taken only after one.
Restart ==
    /\ last.req.op # "start"
    /\ verification_codes' = <<>>
    /\ last' = Response(Request("start", Missing, Missing, Missing, Missing, Missing),
                        TRUE, Missing, 0, {}, NoMail)
    /\ UNCHANGED <<users, firebase_users, FIREBASE_WEB_API_KEY, firestore_carts, orders, now, requests, inflight>>

----------------------------------------------------------------------------
(* The requests explored *)

\* the (name, password, phone) a client submits when it asks for a code
SentData == {<<"Ann", "pw1111", "555">>, <<"Bob ", "pw2222", "555">>}

\* what a client may resubmit at redemption: the same, or a field changed
ResentData == SentData \cup {<<"Ann", "pw2222", "555">>, <<"Ann", "pw1111", "556">>}

\* requests with a field missing
BadData == {<<Missing, "pw1111", "555">>, <<"Ann", Missing, "555">>, <<"Ann", "pw1111", Missing>>}

RequestVerification ==
    \E email \in Emails, d \in SentData : send_verification(d[1], email, d[2], d[3])

RequestVerificationInvalid ==
    \/ \E d \in BadData : send_verification(d[1], "u@x.com", d[2], d[3])
    \/ send_verification("Ann", Missing, "pw1111", "555")

Redeem ==
    \E email \in Emails, d \in ResentData, code \in Codes :
        register_user(d[1], email, d[2], d[3], code)

RedeemInvalid ==
    \/ \E d \in BadData : register_user(d[1], "u@x.com", d[2], d[3], "111111")
    \/ register_user("Ann", Missing, "pw1111", "555", "111111")
    \/ register_user("Ann", "u@x.com", "pw1111", "555", Missing)

Login ==
    \E email \in Emails, password \in Passwords : login_user(email, password)

LoginInvalid ==
    \E email \in {"u@x.com", Missing}, password \in {"pw1111", Missing} :
        /\ Missing \in {email, password}
        /\ login_user(email, password)

\* accounts the provider may hold before the backend starts: the administrator's,
\* and a customer's that has no row in the users table yet
ExistingAccounts ==
    [k \in {"admin@shophub.com", "v@x.com"} |->
        IF k = "v@x.com"
        THEN [password |-> "pw1111", display_name |-> Missing, phone_number |-> Missing]
        ELSE [password |-> "pw1111", display_name |-> "Admin", phone_number |-> "+15550100"]]

\* rows the users table may hold at startup (CREATE TABLE IF NOT EXISTS keeps the
\* rows of an earlier run): a customer's that has no account at the provider
LegacyRows ==
    << [id |-> 1, name |-> "Uma", email |-> "U@x.com",
        password |-> hash_password("pw1111"), phone |-> "555", cart |-> "[]"] >>

\* the deployments explored: whether a web API key is configured, the provider's
\* accounts and the rows of the users table at startup
Deployments == {<<TRUE, ExistingAccounts, LegacyRows>>, <<FALSE, <<>>, <<>> >>}

Init ==
    /\ verification_codes = <<>>
    /\ \E dep \in Deployments :
          /\ FIREBASE_WEB_API_KEY = dep[1]
          /\ firebase_users = dep[2]
          /\ users = dep[3]
    /\ now = 0
    /\ requests = 0
    /\ last = Response(Request("start", Missing, Missing, Missing, Missing, Missing),
                       TRUE, Missing, 0, {}, NoMail)
    /\ inflight = {}
    /\ firestore_carts = <<>>
    /\ orders = <<>>

\* a request arrives and is handled from its first line to its response, no other
\* request being handled meanwhile
Handle(handler) ==
    /\ requests < MaxRequests
    /\ requests' = requests + 1
    /\ handler
    /\ UNCHANGED inflight

Next ==
    \/ Handle(RequestVerification)
    \/ Handle(RequestVerificationInvalid)
    \/ Handle(Redeem)
    \/ Handle(RedeemInvalid)
    \/ Handle(Login)
    \/ Handle(LoginInvalid)
    \/ Tick
    \/ Restart

Spec == Init /\ [][Next]_vars

----------------------------------------------------------------------------
(* The handlers step by step: requests handled by concurrent worker threads.   *)
(* A request that has passed its checks stays in inflight, with the line it    *)
(* is at, until it answers; the steps of several of them interleave at the     *)
(* calls to the provider and the mail server and at the statements on the      *)
(* ticket table and the users table.                                           *)

MsgUnhandled == "Internal Server Error"

\* no ticket held in a local variable
NoTicket == Ticket(Missing, 0, Missing, Missing, Missing)

\* a request in the middle of its handler: id is its arrival number, pc the call
\* it makes next, name and phone the values it is about to insert, stored_data the
\* ticket it holds in a local variable
Pending(id, req, pc, name, phone) ==
    [id |-> id, req |-> req, pc |-> pc, name |-> name, phone |-> phone,
     stored_data |-> NoTicket]

\* a pending request that holds the ticket stored_data
PendingTicket(id, req, pc, stored_data) ==
    [Pending(id, req, pc, req.name, req.phone) EXCEPT !.stored_data = stored_data]

\* a row inserted whatever rows the table holds
UniqueViolation_Unenforced(email) == FALSE

\* email TEXT UNIQUE NOT NULL: an INSERT of an email that has a row raises
\* sqlite3.IntegrityError
UniqueViolation(email) == fetch_local_user(email)

\* a request arrives while fewer than MaxInflight are being handled
Arrives ==
    /\ requests < MaxRequests
    /\ Cardinality(inflight) < MaxInflight
    /\ requests' = requests + 1

\* send_verification up to the call of send_verification_email: its checks, the
\* code it draws and the ticket it stores
VerificationStore(name, email, password, phone) ==
    LET req == Request("send_verification", name, email, password, phone, Missing)
        key == Lower(email)
    IN
    /\ Arrives
    /\ UNCHANGED <<users, firebase_users, FIREBASE_WEB_API_KEY, firestore_carts, orders, now>>
    /\ IF FieldMissing(name, email, password, phone)
       THEN /\ last' = Response(req, FALSE, MsgFieldsRequired, 400, {}, NoMail)
            /\ UNCHANGED <<verification_codes, inflight>>
       ELSE IF fetch_local_user(email)
       THEN /\ last' = Response(req, FALSE, MsgAlreadyRegistered, 400, {}, NoMail)
            /\ UNCHANGED <<verification_codes, inflight>>
       ELSE IF IsAdminEmail(email)
       THEN /\ last' = Response(req, FALSE, MsgReservedEmail, 400, {}, NoMail)
            /\ UNCHANGED <<verification_codes, inflight>>
       ELSE \E code \in Codes :
              LET ticket == Ticket(code, now + VERIFICATION_CODE_EXPIRY, name, password, phone)
              IN
              /\ verification_codes' = StoreTicket(verification_codes, key, ticket)
              /\ inflight' = inflight \cup
                    {PendingTicket(requests + 1, req, "send_email", ticket)}
              /\ UNCHANGED last

\* send_verification from the return of send_verification_email to its response
VerificationSendEmail(r) ==
    LET key == Lower(r.req.email) IN
    /\ r.pc = "send_email"
    /\ UNCHANGED <<users, firebase_users, FIREBASE_WEB_API_KEY, firestore_carts, orders, now, requests>>
    /\ inflight' = inflight \ {r}
    /\ \E delivered \in BOOLEAN :
         IF delivered
         THEN /\ last' = Response(r.req, TRUE, MsgCodeSent, 200, {"smtp"},
                                  [to |-> r.req.email, code |-> r.stored_data.code])
              /\ UNCHANGED verification_codes
         ELSE /\ verification_codes' = AfterDeliveryFailure(verification_codes, key)
              /\ last' = Response(r.req, FALSE, MsgDeliveryFailed, 500, {"smtp"}, NoMail)

\* register_user up to its read of the ticket: the checks on the fields and the
\* users table, and the test that the table holds a ticket for the email
RedeemChecks(name, email, password, phone, verification_code) ==
    LET req == Request("register_user", name, email, password, phone, verification_code)
        email_lower == Lower(email)
    IN
    /\ Arrives
    /\ UNCHANGED <<users, firebase_users, FIREBASE_WEB_API_KEY, firestore_carts, orders, now>>
    /\ IF FieldMissing(name, email, password, phone)
       THEN /\ last' = Response(req, FALSE, MsgFieldsRequired, 400, {}, NoMail)
            /\ UNCHANGED <<verification_codes, inflight>>
       ELSE IF verification_code = Missing
       THEN /\ last' = Response(req, FALSE, MsgCodeRequired, 400, {}, NoMail)
            /\ UNCHANGED <<verification_codes, inflight>>
       ELSE IF fetch_local_user(email)
       THEN /\ last' = Response(req, FALSE, MsgAlreadyRegistered, 400, {}, NoMail)
            /\ UNCHANGED <<verification_codes, inflight>>
       ELSE IF email_lower \notin DOMAIN verification_codes
       THEN /\ last' = Response(req, FALSE, MsgCodeNotFound, 400, {}, NoMail)
            /\ UNCHANGED <<verification_codes, inflight>>
       ELSE /\ inflight' = inflight \cup
                  {Pending(requests + 1, req, "read_ticket", name, phone)}
            /\ UNCHANGED <<verification_codes, last>>

\* register_user from stored_data = verification_codes[email_lower] to the call of
\* create_user: the read of the ticket and the checks made on what was read
RedeemReadTicket(r) ==
    LET email_lower == Lower(r.req.email)
        stored_data == verification_codes[email_lower]
    IN
    /\ r.pc = "read_ticket"
    /\ UNCHANGED <<users, firebase_users, FIREBASE_WEB_API_KEY, firestore_carts, orders, now, requests>>
    /\ IF email_lower \notin DOMAIN verification_codes
       THEN \* KeyError, raised outside the try block: the framework answers 500
            /\ last' = Response(r.req, FALSE, MsgUnhandled, 500, {}, NoMail)
            /\ inflight' = inflight \ {r}
            /\ UNCHANGED verification_codes
       ELSE IF IsExpired(stored_data)
       THEN /\ verification_codes' = AfterExpired(verification_codes, email_lower)
            /\ last' = Response(r.req, FALSE, MsgCodeExpired, 400, {}, NoMail)
            /\ inflight' = inflight \ {r}
       ELSE IF CodeDiffers(stored_data, r.req.code)
       THEN /\ verification_codes' = AfterCodeMismatch(verification_codes, email_lower)
            /\ last' = Response(r.req, FALSE, MsgCodeMismatch, 400, {}, NoMail)
            /\ inflight' = inflight \ {r}
       ELSE IF DataDiffers(stored_data, r.req.name, r.req.password, r.req.phone)
       THEN /\ verification_codes' = AfterDataMismatch(verification_codes, email_lower)
            /\ last' = Response(r.req, FALSE, MsgDataMismatch, 400, {}, NoMail)
            /\ inflight' = inflight \ {r}
       ELSE /\ inflight' = (inflight \ {r}) \cup
                  {PendingTicket(r.id, r.req, "create_user", stored_data)}
            /\ UNCHANGED <<verification_codes, last>>

\* register_user at firebase_auth.create_user
RedeemCreateUser(r) ==
    LET email_lower == Lower(r.req.email) IN
    /\ r.pc = "create_user"
    /\ UNCHANGED <<users, FIREBASE_WEB_API_KEY, firestore_carts, orders, now, requests>>
    /\ \E provider_ok \in BOOLEAN :
         IF ~provider_ok
         THEN /\ verification_codes' = AfterCreateUserError(verification_codes, email_lower)
              /\ last' = Response(r.req, FALSE, MsgRegistrationFailed, 500,
                                  {"create_user"}, NoMail)
              /\ inflight' = inflight \ {r}
              /\ UNCHANGED firebase_users
         ELSE IF ProviderKey(r.req.email) \in DOMAIN firebase_users
         THEN /\ verification_codes' = AfterCreateUserError(verification_codes, email_lower)
              /\ last' = Response(r.req, FALSE, MsgAlreadyRegistered, 400,
                                  {"create_user"}, NoMail)
              /\ inflight' = inflight \ {r}
              /\ UNCHANGED firebase_users
         ELSE /\ firebase_users' = CreateAccount(r.req.email, r.req.password, Strip(r.req.name))
              /\ inflight' = (inflight \ {r}) \cup {[r EXCEPT !.pc = "insert"]}
              /\ UNCHANGED <<verification_codes, last>>

\* register_user at its INSERT, to its response
RedeemInsert(r) ==
    LET email_lower == Lower(r.req.email) IN
    /\ r.pc = "insert"
    /\ UNCHANGED <<firebase_users, FIREBASE_WEB_API_KEY, firestore_carts, orders, now, requests>>
    /\ inflight' = inflight \ {r}
    /\ IF UniqueViolation(r.req.email)
       THEN \* sqlite3.IntegrityError, caught by except Exception
            /\ verification_codes' = AfterCreateUserError(verification_codes, email_lower)
            /\ last' = Response(r.req, FALSE, MsgRegistrationFailed, 500,
                                {"create_user"}, NoMail)
            /\ UNCHANGED users
       ELSE /\ users' = InsertUser(r.name, r.req.email, hash_password(r.req.password), r.phone)
            /\ verification_codes' = AfterCreateUser(verification_codes, email_lower)
            /\ last' = Response(r.req, TRUE, MsgRegistered, 200, {"create_user"}, NoMail)

\* login_user up to the call of ensure_local_user_record: a login the provider
\* refuses, or made with no web API key, is answered from the users table
LoginSignIn(email, password) ==
    LET req == Request("login_user", Missing, email, password, Missing, Missing) IN
    /\ Arrives
    /\ UNCHANGED <<verification_codes, firebase_users, FIREBASE_WEB_API_KEY, firestore_carts, orders, now>>
    /\ IF email = Missing \/ password = Missing
       THEN /\ last' = Response(req, FALSE, MsgLoginRequired, 400, {}, NoMail)
            /\ UNCHANGED <<users, inflight>>
       ELSE IF ~FIREBASE_WEB_API_KEY
       THEN LocalLogin(req, NoFirebaseResult, {}) /\ UNCHANGED inflight
       ELSE \E net \in SignInOutcomes :
              LET firebase_result == sign_in_with_firebase(email, password, net) IN
              IF ~firebase_result.success
              THEN LocalLogin(req, firebase_result, {"signInWithPassword"})
                   /\ UNCHANGED inflight
              ELSE /\ inflight' = inflight \cup
                         {Pending(requests + 1, req, "ensure_fetch", Missing, Missing)}
                   /\ UNCHANGED <<users, last>>

\* ensure_local_user_record at its fetch_local_user, and at firebase_auth.get_user
\* when there is no row
MirrorFetch(r) ==
    /\ r.pc = "ensure_fetch"
    /\ UNCHANGED <<verification_codes, users, firebase_users, FIREBASE_WEB_API_KEY, firestore_carts, orders, now,
                   requests>>
    /\ IF fetch_local_user(r.req.email)
       THEN /\ inflight' = inflight \ {r}
            /\ last' = LoginResponse(r.req, TRUE, MsgLoggedIn, 200, {"signInWithPassword"},
                                     sign_in_with_firebase(r.req.email, r.req.password, "ok"))
       ELSE \E profile_ok \in BOOLEAN :
              LET acct == firebase_users[ProviderKey(r.req.email)]
                  name == IF profile_ok /\ acct.display_name # Missing
                          THEN acct.display_name ELSE LocalPart(r.req.email)
                  phone == IF profile_ok /\ acct.phone_number # Missing
                           THEN acct.phone_number ELSE Missing
              IN
              /\ inflight' = (inflight \ {r}) \cup
                    {[r EXCEPT !.pc = "ensure_insert", !.name = name, !.phone = phone]}
              /\ UNCHANGED last

\* ensure_local_user_record at its INSERT, to the response of login_user
MirrorInsert(r) ==
    /\ r.pc = "ensure_insert"
    /\ UNCHANGED <<verification_codes, firebase_users, FIREBASE_WEB_API_KEY, firestore_carts, orders, now, requests>>
    /\ inflight' = inflight \ {r}
    /\ IF UniqueViolation(r.req.email)
       THEN \* sqlite3.IntegrityError, caught by nothing: the framework answers 500
            /\ last' = Response(r.req, FALSE, MsgUnhandled, 500,
                                {"signInWithPassword", "get_user"}, NoMail)
            /\ UNCHANGED users
       ELSE /\ users' = InsertUser(r.name, r.req.email, hash_password(r.req.password), r.phone)
            /\ last' = LoginResponse(r.req, TRUE, MsgLoggedIn, 200,
                                     {"signInWithPassword", "get_user"},
                                     [success |-> TRUE, message |-> Missing, status |-> 200])

\* the requests made of the concurrent workers
ConcurrentEmails == {"u@x.com", "v@x.com"}

VerificationArrives ==
    \E email \in ConcurrentEmails : VerificationStore("Ann", email, "pw1111", "555")

RedeemArrives ==
    \E email \in ConcurrentEmails, code \in Codes :
        RedeemChecks("Ann", email, "pw1111", "555", code)

LoginArrives ==
    \E email \in ConcurrentEmails, password \in Passwords : LoginSignIn(email, password)

NextInterleaved ==
    \/ VerificationArrives
    \/ RedeemArrives
    \/ LoginArrives
    \/ Tick
    \/ \E r \in inflight : VerificationSendEmail(r)
    \/ \E r \in inflight : RedeemReadTicket(r)
    \/ \E r \in inflight : RedeemCreateUser(r)
    \/ \E r \in inflight : RedeemInsert(r)
    \/ \E r \in inflight : MirrorFetch(r)
    \/ \E r \in inflight : MirrorInsert(r)

SpecInterleaved == Init /\ [][NextInterleaved]_vars

----------------------------------------------------------------------------
(* Vocabulary of the properties *)

\* this step handled a request: last' holds it and its response
Handled(op) == requests' # requests /\ last'.req.op = op

\* the request handled by this step carries all of name, email, password, phone
FieldsGiven(req) ==
    req.name # Missing /\ req.email # Missing /\ req.password # Missing /\ req.phone # Missing

\* the number of rows of table whose email is exactly email
RecordCount(table, email) == Cardinality({i \in 1..Len(table) : table[i].email = email})

\* req resubmits the code and the data of ticket
Matches(req, ticket) ==
    /\ req.code = ticket.code
    /\ req.name = ticket.name
    /\ req.password = ticket.password
    /\ req.phone = ticket.phone

\* register_user passes its checks on the fields, the users table, and the ticket's
\* presence: the step's request is about an unregistered email that holds a ticket
ReachesTicket(req) ==
    /\ FieldsGiven(req) /\ req.code # Missing
    /\ RecordCount(users, req.email) = 0
    /\ Lower(req.email) \in DOMAIN verification_codes

----------------------------------------------------------------------------
(* C1 *)

\* C1: account creation is gated. A register_user step calls the provider's
\* create_user, changes the provider's accounts or inserts a users row only if,
\* in the state it starts from, a ticket exists under lower(email), now is not
\* after its expires_at, and the submitted code, name, password and phone equal
\* the ticket's.
C1_CreationGated ==
    [][ ( /\ Handled("register_user")
          /\ \/ "create_user" \in last'.calls
             \/ users' # users
             \/ firebase_users' # firebase_users )
        => LET key == Lower(last'.req.email) IN
           /\ key \in DOMAIN verification_codes
           /\ now <= verification_codes[key].expires_at
           /\ Matches(last'.req, verification_codes[key]) ]_vars

\* a registration that created the account and the users row
C1_Witness ==
    /\ last.req.op = "register_user"
    /\ last.success
    /\ "create_user" \in last.calls
    /\ RecordCount(users, last.req.email) = 1
    /\ Lower(last.req.email) \in DOMAIN firebase_users

----------------------------------------------------------------------------
(* C2 *)

\* the step is a register_user that directly follows a successful
\* send_verification for the same email, before any time has passed, and
\* resubmits the mailed code with the same name, password and phone
RedeemsAtOnce ==
    /\ last.req.op = "send_verification"
    /\ last.success
    /\ Handled("register_user")
    /\ last'.req.email = last.req.email
    /\ last'.req.name = last.req.name
    /\ last'.req.password = last.req.password
    /\ last'.req.phone = last.req.phone
    /\ last'.req.code = last.mail.code
    /\ RecordCount(users, last.req.email) = 0
    /\ verification_codes[Lower(last.req.email)].expires_at = now + VERIFICATION_CODE_EXPIRY

\* C2 as stated: for every email E not in the users table, send_verification
\* followed immediately by register_user with the mailed code and identical
\* name, password and phone succeeds and leaves exactly one users row for E.
C2_AlwaysSucceeds ==
    [][ RedeemsAtOnce =>
          /\ last'.success
          /\ RecordCount(users', last'.req.email) = 1 ]_vars

\* C2 amended: such a register_user passes every check and calls create_user;
\* it succeeds and leaves exactly one users row for E provided create_user
\* succeeds. It fails with "Email already registered" only when the provider holds
\* an account for E (compared ignoring case) and otherwise with "Registration
\* failed", and in both cases writes no row.
C2_SucceedsIfProviderDoes ==
    [][ RedeemsAtOnce =>
          /\ "create_user" \in last'.calls
          /\ \/ /\ last'.success
                /\ RecordCount(users', last'.req.email) = 1
                /\ Len(users') = Len(users) + 1
                /\ Lower(last'.req.email) \notin DOMAIN firebase_users
                /\ Lower(last'.req.email) \in DOMAIN firebase_users'
             \/ /\ ~last'.success
                /\ last'.message = MsgAlreadyRegistered
                /\ Lower(last'.req.email) \in DOMAIN firebase_users
                /\ users' = users /\ firebase_users' = firebase_users
             \/ /\ ~last'.success
                /\ last'.message = MsgRegistrationFailed
                /\ users' = users /\ firebase_users' = firebase_users ]_vars

\* a code requested and redeemed at once: two requests, one row, hashed password
C2_Witness ==
    /\ requests = 2
    /\ last.req.op = "register_user"
    /\ last.success
    /\ Len(users) = 1
    /\ users[1].email = last.req.email
    /\ users[1].name = last.req.name
    /\ users[1].phone = last.req.phone

----------------------------------------------------------------------------
(* C3 *)

----------------------------------------------------------------------------
(* C4 *)

\* C4: a register_user for an unregistered email whose ticket has
\* now > expires_at fails with "Verification code has expired" and removes that
\* ticket and nothing else; the same request repeated then fails with
\* "Verification code not found"; and no register_user made after the ticket's
\* expires_at calls create_user, changes the provider or inserts a row.
C4_ExpiredIsPurged ==
    /\ [][ ( /\ Handled("register_user")
             /\ ReachesTicket(last'.req)
             /\ now > verification_codes[Lower(last'.req.email)].expires_at )
           => /\ ~last'.success
              /\ last'.message = MsgCodeExpired
              /\ DOMAIN verification_codes' =
                    DOMAIN verification_codes \ {Lower(last'.req.email)}
              /\ \A k \in DOMAIN verification_codes' :
                    verification_codes'[k] = verification_codes[k] ]_vars
    /\ [][ ( /\ last.req.op = "register_user"
             /\ last.message = MsgCodeExpired
             /\ Handled("register_user")
             /\ last'.req = last.req )
           => /\ ~last'.success
              /\ last'.message = MsgCodeNotFound ]_vars
    /\ [][ ( /\ Handled("register_user")
             /\ Lower(last'.req.email) \in DOMAIN verification_codes
             /\ now > verification_codes[Lower(last'.req.email)].expires_at )
           => /\ ~last'.success
              /\ "create_user" \notin last'.calls
              /\ users' = users
              /\ firebase_users' = firebase_users ]_vars

\* an expired code was refused and its ticket is gone
C4_Witness ==
    /\ last.req.op = "register_user"
    /\ last.message = MsgCodeExpired
    /\ Lower(last.req.email) \notin DOMAIN verification_codes
    /\ now > VERIFICATION_CODE_EXPIRY

----------------------------------------------------------------------------
(* C5 *)

\* C5: a register_user with the code of the unexpired ticket but a name, password
\* or phone that differs from the ticket's fails with "Registration data mismatch"
\* and removes the ticket, so that the original request then finds no ticket.
C5_DataMismatchPurges ==
    /\ [][ ( /\ Handled("register_user")
             /\ ReachesTicket(last'.req)
             /\ now <= verification_codes[Lower(last'.req.email)].expires_at
             /\ last'.req.code = verification_codes[Lower(last'.req.email)].code
             /\ ~Matches(last'.req, verification_codes[Lower(last'.req.email)]) )
           => /\ ~last'.success
              /\ last'.message = MsgDataMismatch
              /\ Lower(last'.req.email) \notin DOMAIN verification_codes' ]_vars
    /\ [][ ( /\ last.req.op = "register_user"
             /\ last.message = MsgDataMismatch
             /\ Handled("register_user")
             /\ last'.req.email = last.req.email )
           => /\ ~last'.success
              /\ last'.message = MsgCodeNotFound ]_vars

----------------------------------------------------------------------------
(* C6 *)

\* the ticket a successful send_verification step must have stored
FreshTicket ==
    [code |-> last'.mail.code,
     expires_at |-> now + VERIFICATION_CODE_EXPIRY,
     name |-> last'.req.name,
     password |-> last'.req.password,
     phone |-> last'.req.phone]

\* C6: tickets are keyed by lower(email) only, so there is at most one per email
\* compared ignoring case; a send_verification that succeeds leaves under
\* lower(email) exactly the ticket of this call (its mailed code, now + 600 and its
\* name, password and phone), whatever ticket was there before, and leaves the
\* other tickets alone; a register_user that follows it with any other code than
\* the one just mailed, such as the replaced ticket's, creates no account.
C6_SecondRequestReplaces ==
    /\ [](\A k \in DOMAIN verification_codes : Lower(k) = k)
    /\ [][ ( /\ Handled("send_verification")
             /\ last'.success )
           => /\ DOMAIN verification_codes' =
                    DOMAIN verification_codes \cup {Lower(last'.req.email)}
              /\ verification_codes'[Lower(last'.req.email)] = FreshTicket
              /\ \A k \in DOMAIN verification_codes \ {Lower(last'.req.email)} :
                    verification_codes'[k] = verification_codes[k] ]_vars
    /\ [][ ( /\ last.req.op = "send_verification"
             /\ last.success
             /\ Handled("register_user")
             /\ Lower(last'.req.email) = Lower(last.req.email)
             /\ last'.req.code # last.mail.code )
           => /\ ~last'.success
              /\ "create_user" \notin last'.calls
              /\ users' = users
              /\ firebase_users' = firebase_users ]_vars

\* a second code was requested later, under a case variant of the email, and only
\* its ticket is stored
C6_Witness ==
    /\ requests >= 2
    /\ now > 0
    /\ last.req.op = "send_verification"
    /\ last.success
    /\ last.req.email # Lower(last.req.email)
    /\ DOMAIN verification_codes = {Lower(last.req.email)}
    /\ verification_codes[Lower(last.req.email)] =
          [code |-> last.mail.code, expires_at |-> now + VERIFICATION_CODE_EXPIRY,
           name |-> last.req.name, password |-> last.req.password,
           phone |-> last.req.phone]

----------------------------------------------------------------------------
(* C7 *)

\* C7: a send_verification whose mail could not be delivered fails with "Failed
\* to send verification email" and leaves no ticket under lower(email), touching
\* nothing else; a send_verification for the same email that follows it is not
\* refused: it stores its ticket when its mail is delivered.
C7_DeliveryFailureRollsBack ==
    /\ [][ ( /\ Handled("send_verification")
             /\ "smtp" \in last'.calls
             /\ last'.mail = NoMail )
           => /\ ~last'.success
              /\ last'.message = MsgDeliveryFailed
              /\ DOMAIN verification_codes' =
                    DOMAIN verification_codes \ {Lower(last'.req.email)}
              /\ \A k \in DOMAIN verification_codes' :
                    verification_codes'[k] = verification_codes[k]
              /\ users' = users
              /\ firebase_users' = firebase_users ]_vars
    /\ [][ ( /\ last.req.op = "send_verification"
             /\ last.message = MsgDeliveryFailed
             /\ Handled("send_verification")
             /\ last'.req.email = last.req.email
             /\ FieldsGiven(last'.req) )
           => /\ "smtp" \in last'.calls
              /\ \/ /\ last'.success
                    /\ last'.mail = [to |-> last'.req.email,
                                     code |-> verification_codes'[Lower(last'.req.email)].code]
                 \/ /\ last'.message = MsgDeliveryFailed
                    /\ Lower(last'.req.email) \notin DOMAIN verification_codes' ]_vars

\* a delivery failed and no ticket is left for the email
C7_Witness ==
    /\ last.req.op = "send_verification"
    /\ last.message = MsgDeliveryFailed
    /\ "smtp" \in last.calls
    /\ Lower(last.req.email) \notin DOMAIN verification_codes

----------------------------------------------------------------------------
(* C8 *)

\* the step is a send_verification, with every field given, for the reserved
\* administrator address in any letter case
AsksCodeForAdmin ==
    /\ Handled("send_verification")
    /\ FieldsGiven(last'.req)
    /\ Lower(last'.req.email) = Lower(ADMIN_EMAIL)

\* C8 as stated: send_verification for the reserved administrator address always
\* fails with "This email is reserved for admin use", also when the users table
\* holds a row for that address.
C8_AlwaysReserved ==
    [][ AsksCodeForAdmin =>
          /\ ~last'.success
          /\ last'.message = MsgReservedEmail ]_vars

\* C8 amended: send_verification for the reserved administrator address always
\* fails with status 400, stores no ticket and sends nothing; the failure is
\* "This email is reserved for admin use" when the users table holds no row with
\* exactly that email, and "Email already registered" when it holds one.
C8_ReservedUnlessRegistered ==
    [][ AsksCodeForAdmin =>
          /\ ~last'.success
          /\ last'.status = 400
          /\ last'.calls = {}
          /\ last'.mail = NoMail
          /\ verification_codes' = verification_codes
          /\ IF RecordCount(users, last'.req.email) = 0
             THEN last'.message = MsgReservedEmail
             ELSE last'.message = MsgAlreadyRegistered ]_vars

\* a code was asked for the administrator address, which has a users row
C8_Witness ==
    /\ last.req.op = "send_verification"
    /\ Lower(last.req.email) = Lower(ADMIN_EMAIL)
    /\ RecordCount(users, last.req.email) = 1
    /\ last.message = MsgAlreadyRegistered

----------------------------------------------------------------------------
(* C9 *)

\* C9: a register_user that succeeds removes the ticket of lower(email) and no
\* other; rows of the users table are never removed or changed; and every
\* register_user for an email that has a row, such as the same request made
\* again, fails without calling create_user, changing the provider or inserting
\* a row.
C9_SingleUse ==
    /\ [][ ( /\ Handled("register_user")
             /\ last'.success )
           => /\ DOMAIN verification_codes' =
                    DOMAIN verification_codes \ {Lower(last'.req.email)}
              /\ \A k \in DOMAIN verification_codes' :
                    verification_codes'[k] = verification_codes[k]
              /\ RecordCount(users', last'.req.email) = 1 ]_vars
    /\ [][ /\ Len(users') >= Len(users)
           /\ \A i \in 1..Len(users) : users'[i] = users[i] ]_vars
    /\ [][ ( /\ Handled("register_user")
             /\ RecordCount(users, last'.req.email) > 0 )
           => /\ ~last'.success
              /\ "create_user" \notin last'.calls
              /\ users' = users
              /\ firebase_users' = firebase_users ]_vars
    /\ [][ ( /\ last.req.op = "register_user"
             /\ last.success
             /\ Handled("register_user")
             /\ last'.req = last.req )
           => /\ ~last'.success
              /\ last'.message = MsgAlreadyRegistered
              /\ last'.calls = {} ]_vars

\* the request that registered the email was made again and refused: one row,
\* one provider account, no ticket
C9_Witness ==
    /\ requests = 3
    /\ last.req.op = "register_user"
    /\ last.message = MsgAlreadyRegistered
    /\ last.calls = {}
    /\ Len(users) = 1
    /\ users[1].email = last.req.email
    /\ users[1].password = hash_password(last.req.password)
    /\ DOMAIN firebase_users = {Lower(last.req.email)}
    /\ verification_codes = <<>>

----------------------------------------------------------------------------
(* C10 *)

\* C10: a send_verification or register_user that gives every field (and, for
\* register_user, a code) for an email that has a users row fails with "Email
\* already registered" and status 400, whatever tickets exist and whatever code is
\* submitted, and changes neither the ticket table nor the users table nor the
\* provider, calls neither the provider nor the mail server and sends nothing.
C10_RegisteredEmailRefused ==
    [][ ( /\ \/ Handled("send_verification")
             \/ Handled("register_user") /\ last'.req.code # Missing
          /\ FieldsGiven(last'.req)
          /\ RecordCount(users, last'.req.email) > 0 )
        => /\ ~last'.success
           /\ last'.message = MsgAlreadyRegistered
           /\ last'.status = 400
           /\ last'.calls = {}
           /\ last'.mail = NoMail
           /\ verification_codes' = verification_codes
           /\ users' = users
           /\ firebase_users' = firebase_users ]_vars

\* the right code and data were submitted for an email that holds a ticket, and
\* refused because the email has a users row
C10_Witness ==
    /\ last.req.op = "register_user"
    /\ last.message = MsgAlreadyRegistered
    /\ last.calls = {}
    /\ RecordCount(users, last.req.email) = 1
    /\ Lower(last.req.email) \in DOMAIN verification_codes
    /\ Matches(last.req, verification_codes[Lower(last.req.email)])
    /\ now <= verification_codes[Lower(last.req.email)].expires_at

----------------------------------------------------------------------------
(* C11 *)

\* the step is a register_user that passes every check: all fields and a code
\* given, no users row for the email, and under lower(email) an unexpired ticket
\* with the submitted code, name, password and phone
PassesAllChecks ==
    /\ Handled("register_user")
    /\ ReachesTicket(last'.req)
    /\ now <= verification_codes[Lower(last'.req.email)].expires_at
    /\ Matches(last'.req, verification_codes[Lower(last'.req.email)])

\* C11: a register_user that passes every check calls create_user. When the
\* provider holds an account for the email it cannot succeed; when create_user
\* raises, the answer is "Email already registered" (400), given only for an email
\* the provider holds, or else "Registration failed"; and in both failures the
\* ticket of lower(email) is removed, the other tickets are kept, no users row is
\* written and the provider's accounts are unchanged.
C11_ProviderErrorPurges ==
    /\ [][ PassesAllChecks =>
             /\ "create_user" \in last'.calls
             /\ (Lower(last'.req.email) \in DOMAIN firebase_users => ~last'.success)
             /\ ~last'.success =>
                   /\ \/ /\ last'.message = MsgAlreadyRegistered
                         /\ last'.status = 400
                         /\ Lower(last'.req.email) \in DOMAIN firebase_users
                      \/ last'.message = MsgRegistrationFailed
                   /\ DOMAIN verification_codes' =
                         DOMAIN verification_codes \ {Lower(last'.req.email)}
                   /\ \A k \in DOMAIN verification_codes' :
                         verification_codes'[k] = verification_codes[k]
                   /\ users' = users
                   /\ firebase_users' = firebase_users ]_vars
    /\ [][ ( /\ Handled("register_user")
             /\ "create_user" \in last'.calls
             /\ ~last'.success )
           => PassesAllChecks ]_vars

\* create_user reported that the email exists: the redemption was refused, the
\* ticket is gone and there is no users row for the email
C11_Witness ==
    /\ last.req.op = "register_user"
    /\ "create_user" \in last.calls
    /\ last.message = MsgAlreadyRegistered
    /\ Lower(last.req.email) \in DOMAIN firebase_users
    /\ Lower(last.req.email) \notin DOMAIN verification_codes
    /\ RecordCount(users, last.req.email) = 0

----------------------------------------------------------------------------
(* C12 *)

\* the users table holds a row for exactly req.email whose stored hash is the
\* hash of req.password
LocalMatch(req) ==
    \E i \in 1..Len(users) :
        /\ users[i].email = req.email
        /\ users[i].password = hash_password(req.password)

\* the provider holds an account for req.email with password req.password
RemoteMatch(req) ==
    /\ Lower(req.email) \in DOMAIN firebase_users
    /\ firebase_users[Lower(req.email)].password = req.password

\* C12: login_user succeeds if and only if a web API key is configured and the
\* provider's sign-in succeeded, or the users table holds a row for the email
\* whose hash is the hash of the password. The provider is asked exactly when a
\* key is configured, and its sign-in succeeds only for an account with that
\* password; a matching row authenticates whatever the provider answered:
\* invalid credentials, account disabled, another error, or unreachable.
C12_LoginSucceedsIff ==
    [][ Handled("login_user") =>
          /\ last'.success <=>
                \/ FIREBASE_WEB_API_KEY /\ last'.remote.success
                \/ LocalMatch(last'.req)
          /\ last'.remote.success => FIREBASE_WEB_API_KEY /\ RemoteMatch(last'.req)
          /\ ("signInWithPassword" \in last'.calls) <=>
                (FIREBASE_WEB_API_KEY /\ last'.req.email # Missing
                    /\ last'.req.password # Missing)
          /\ last'.success => last'.status = 200 ]_vars

\* a login that the configured provider refused or could not answer succeeded on
\* the row of the users table
C12_Witness ==
    /\ last.req.op = "login_user"
    /\ FIREBASE_WEB_API_KEY
    /\ "signInWithPassword" \in last.calls
    /\ ~last.remote.success
    /\ last.remote.message \in {MsgInvalidCredentials, MsgAccountDisabled, MsgUnreachable}
    /\ last.success
    /\ \E i \in 1..Len(users) :
          /\ users[i].email = last.req.email
          /\ users[i].password = hash_password(last.req.password)

----------------------------------------------------------------------------
(* C13 *)

\* C13: a login_user whose sign-in at the provider failed with a status of 500 or
\* more (503, the provider could not be reached) and whose email has no row with
\* a matching hash fails with the provider's status and the provider's message.
C13_OutageSurfaced ==
    [][ ( /\ Handled("login_user")
          /\ ~last'.remote.success
          /\ last'.remote.status >= 500
          /\ ~LocalMatch(last'.req) )
        => /\ ~last'.success
           /\ last'.status = last'.remote.status
           /\ last'.message = last'.remote.message
           /\ last'.status = 503
           /\ last'.message = MsgUnreachable
           /\ users' = users ]_vars

\* the provider was unreachable and the users table has no matching row: 503 with
\* the provider's message
C13_Witness ==
    /\ last.req.op = "login_user"
    /\ last.remote.status = 503
    /\ ~last.success
    /\ last.status = 503
    /\ last.message = MsgUnreachable
    /\ ~\E i \in 1..Len(users) :
          /\ users[i].email = last.req.email
          /\ users[i].password = hash_password(last.req.password)

----------------------------------------------------------------------------
(* C14 *)

\* C14: a login_user with email and password given that fails on both paths, the
\* provider's status being below 500, answers 401. When the provider answered 401
\* the message is the provider's (invalid credentials, account disabled, or the
\* message for its other error codes); otherwise, which is when no web API key is
\* configured and the provider was not asked, it is the local failure's "Invalid
\* email or password".
C14_UnauthorizedKeepsRemoteMessage ==
    [][ ( /\ Handled("login_user")
          /\ last'.req.email # Missing /\ last'.req.password # Missing
          /\ ~last'.success
          /\ last'.remote.status < 500 )
        => /\ last'.status = 401
           /\ IF last'.remote.status = 401
              THEN /\ FIREBASE_WEB_API_KEY
                   /\ last'.message = last'.remote.message
                   /\ last'.message \in {MsgInvalidCredentials, MsgAccountDisabled,
                                         MsgFirebaseOther}
              ELSE /\ ~FIREBASE_WEB_API_KEY
                   /\ last'.remote = NoFirebaseResult
                   /\ last'.calls = {}
                   /\ last'.message = MsgInvalidCredentials ]_vars

\* the provider answered that the account is disabled and no row matches: 401 with
\* the provider's message
C14_Witness ==
    /\ last.req.op = "login_user"
    /\ ~last.success
    /\ last.remote.status = 401
    /\ last.remote.message = MsgAccountDisabled
    /\ last.status = 401
    /\ last.message = MsgAccountDisabled

----------------------------------------------------------------------------
(* C15 *)

\* C15: a login_user whose sign-in at the provider succeeded, for an email that
\* has no users row, appends exactly one row, for that email, with the hash of
\* the submitted password; one for an email that has a row changes no row; so a
\* login repeated after a provider success changes nothing; and login_user
\* changes the users table in no other case.
C15_MirroredOnce ==
    /\ [][ ( /\ Handled("login_user")
             /\ last'.remote.success
             /\ RecordCount(users, last'.req.email) = 0 )
           => /\ Len(users') = Len(users) + 1
              /\ \A i \in 1..Len(users) : users'[i] = users[i]
              /\ users'[Len(users')].email = last'.req.email
              /\ users'[Len(users')].password = hash_password(last'.req.password)
              /\ RecordCount(users', last'.req.email) = 1 ]_vars
    /\ [][ ( /\ Handled("login_user")
             /\ last'.remote.success
             /\ RecordCount(users, last'.req.email) > 0 )
           => users' = users ]_vars
    /\ [][ ( /\ last.req.op = "login_user"
             /\ last.remote.success
             /\ Handled("login_user")
             /\ last'.req.email = last.req.email )
           => /\ users' = users
              /\ RecordCount(users', last'.req.email) = 1 ]_vars
    /\ [][ ( /\ Handled("login_user")
             /\ users' # users )
           => /\ last'.remote.success
              /\ RecordCount(users, last'.req.email) = 0 ]_vars

\* a login was mirrored and then repeated: the provider accepted both, the second
\* read no profile and there is one row for the email
C15_Witness ==
    /\ requests >= 2
    /\ last.req.op = "login_user"
    /\ last.remote.success
    /\ last.calls = {"signInWithPassword"}
    /\ RecordCount(users, last.req.email) = 1
    /\ users[Len(users)].email = last.req.email
    /\ users[Len(users)].name = LocalPart(last.req.email)

----------------------------------------------------------------------------
(* C16 *)

\* C16: in every state reached by requests whose steps interleave, the users
\* table holds at most one row for any email, emails compared as exact strings.
C16_UniqueEmails ==
    \A i, j \in 1..Len(users) : users[i].email = users[j].email => i = j

\* two requests found no row for the email, one has inserted its row and
\* answered, the other is at its INSERT
C16_Witness ==
    /\ last.success
    /\ RecordCount(users, last.req.email) = 1
    /\ \E r \in inflight :
          /\ r.pc \in {"insert", "ensure_insert"}
          /\ r.req.email = last.req.email

----------------------------------------------------------------------------
(* C17 *)

\* C17: in every state the password of every users row is the hash of a password
\* and is no password in clear; a step that adds a row is a register_user or a
\* login_user, adds one row, and the row's password is the hash of the password
\* that request submitted and differs from it; and the password of a row never
\* changes afterwards.
C17_PasswordsHashed ==
    /\ [](\A i \in 1..Len(users) :
             /\ users[i].password \in {hash_password(p) : p \in Passwords}
             /\ users[i].password \notin Passwords)
    /\ [][ Len(users') > Len(users) =>
             /\ Len(users') = Len(users) + 1
             /\ last'.req.op \in {"register_user", "login_user"}
             /\ last'.success
             /\ users'[Len(users')].email = last'.req.email
             /\ users'[Len(users')].password = hash_password(last'.req.password)
             /\ users'[Len(users')].password # last'.req.password ]_vars
    /\ [][ \A i \in 1..Len(users) :
             i <= Len(users') /\ users'[i].password = users[i].password ]_vars

\* rows written by both paths: one by a registration and one by a login the
\* provider accepted, each holding the hash of its request's password
C17_Witness ==
    /\ last.req.op = "login_user"
    /\ "get_user" \in last.calls
    /\ users[Len(users)].email = last.req.email
    /\ users[Len(users)].password = hash_password(last.req.password)
    /\ users[Len(users)].password # last.req.password
    /\ \E i \in 1..Len(users) :
          /\ users[i].phone = "555"
          /\ users[i].name \in Names
          /\ users[i].password \in {hash_password(p) : p \in Passwords}

----------------------------------------------------------------------------
(* C18 *)

\* the step is a send_verification or a register_user that failed
RegistrationFails ==
    /\ Handled("send_verification") \/ Handled("register_user")
    /\ ~last'.success

\* C18 as stated: every failure of send_verification and register_user is
\* answered with a status of the 400 class.
C18_AllFailures400 ==
    [][ RegistrationFails => (last'.status >= 400 /\ last'.status < 500) ]_vars

\* C18 amended: every failure of send_verification and register_user carries one
\* of the enumerated messages; "Failed to send verification email" and
\* "Registration failed" are answered with status 500, the first exactly when the
\* mail server was called and delivered nothing, the second only after create_user
\* was called; every other failure is answered with status 400; and a success is
\* answered with 200.
C18_FailureStatuses ==
    /\ [][ RegistrationFails =>
             /\ last'.message \in
                   {MsgFieldsRequired, MsgCodeRequired, MsgAlreadyRegistered,
                    MsgReservedEmail, MsgDeliveryFailed, MsgCodeNotFound, MsgCodeExpired,
                    MsgCodeMismatch, MsgDataMismatch, MsgRegistrationFailed}
             /\ IF last'.message \in {MsgDeliveryFailed, MsgRegistrationFailed}
                THEN last'.status = 500
                ELSE last'.status = 400
             /\ last'.message = MsgDeliveryFailed <=> "smtp" \in last'.calls
             /\ last'.message = MsgRegistrationFailed => "create_user" \in last'.calls ]_vars
    /\ [][ ( /\ Handled("send_verification") \/ Handled("register_user")
             /\ last'.success )
           => last'.status = 200 ]_vars

\* create_user raised another error than "email exists": the redemption was
\* answered "Registration failed" with status 500
C18_Witness ==
    /\ last.req.op = "register_user"
    /\ ~last.success
    /\ "create_user" \in last.calls
    /\ last.message = MsgRegistrationFailed
    /\ last.status = 500

----------------------------------------------------------------------------
(* C19 *)

\* the request fails the validation of its handler: a send_verification or
\* register_user with name, email, password or phone missing or empty, a
\* register_user with no code, a login_user with email or password missing
FailsValidation(req) ==
    \/ req.op \in {"send_verification", "register_user"} /\ ~FieldsGiven(req)
    \/ req.op = "register_user" /\ req.code = Missing
    \/ req.op = "login_user" /\ (req.email = Missing \/ req.password = Missing)

\* C19: a request that fails validation is answered with status 400 and the
\* validation message of its handler, whatever the tables hold; it changes
\* neither the ticket table nor the users table nor the provider's accounts,
\* calls neither the provider nor the mail server and sends no message. No
\* other request gets a validation message.
C19_ValidationFirst ==
    /\ [][ ( /\ requests' # requests
             /\ FailsValidation(last'.req) )
           => /\ ~last'.success
              /\ last'.status = 400
              /\ last'.message =
                    IF last'.req.op = "login_user" THEN MsgLoginRequired
                    ELSE IF FieldsGiven(last'.req) THEN MsgCodeRequired
                    ELSE MsgFieldsRequired
              /\ last'.calls = {}
              /\ last'.mail = NoMail
              /\ verification_codes' = verification_codes
              /\ users' = users
              /\ firebase_users' = firebase_users ]_vars
    /\ [][ ( /\ requests' # requests
             /\ last'.message \in {MsgFieldsRequired, MsgCodeRequired, MsgLoginRequired} )
           => FailsValidation(last'.req) ]_vars

\* a request with a field missing was refused although a ticket was stored that
\* the rest of the request matches and that is still there
C19_Witness ==
    /\ last.req.op = "register_user"
    /\ ~FieldsGiven(last.req)
    /\ last.req.email # Missing
    /\ last.message = MsgFieldsRequired
    /\ last.status = 400
    /\ Lower(last.req.email) \in DOMAIN verification_codes
    /\ verification_codes[Lower(last.req.email)].code = last.req.code
    /\ now <= verification_codes[Lower(last.req.email)].expires_at

----------------------------------------------------------------------------
(* C20 *)

\* where the email of req has an account: at the provider (compared ignoring
\* case), in the users table (compared exactly), in both or in neither
Placement(req) ==
    <<Lower(req.email) \in DOMAIN firebase_users, RecordCount(users, req.email) > 0>>

\* the step is a login_user with email and password given that failed, the
\* provider having been asked, reached, and not having answered that the account
\* is disabled
FailsReachable ==
    /\ Handled("login_user")
    /\ last'.req.email # Missing /\ last'.req.password # Missing
    /\ ~last'.success
    /\ "signInWithPassword" \in last'.calls
    /\ last'.remote.status # 503
    /\ last'.remote.message # MsgAccountDisabled

\* C20: a login_user that fails with the provider reached and the account not
\* disabled is answered 401 with a message that depends on no account: whether
\* the email has an account at the provider only, in the users table only, in
\* both or in neither, the answer is "Invalid email or password" when the
\* provider refused the email or the password, the same message the users table's
\* refusal has, and "Unable to sign in with Firebase" when the provider answered
\* another error code.
C20_SameFailureEverywhere ==
    [][ FailsReachable =>
          /\ last'.status = 401
          /\ last'.message = last'.remote.message
          /\ last'.message = authenticate_locally(last'.req.email, last'.req.password).message
                \/ last'.message = MsgFirebaseOther
          /\ last'.remote.message # MsgFirebaseOther
                => last'.message = MsgInvalidCredentials
          /\ users' = users ]_vars

\* a wrong password for an email that has a row in the users table and no account
\* at the provider: "Invalid email or password", 401
C20_Witness ==
    /\ last.req.op = "login_user"
    /\ ~last.success
    /\ "signInWithPassword" \in last.calls
    /\ last.remote.message = MsgInvalidCredentials
    /\ Placement(last.req) = <<FALSE, TRUE>>
    /\ last.message = MsgInvalidCredentials
    /\ last.status = 401

----------------------------------------------------------------------------
(* Vocabulary of the properties of interleaved requests *)

\* the pending request r answers in this step: last' holds its response
Answers(r) ==
    /\ r \in inflight
    /\ \A q \in inflight' : q.id # r.id
    /\ last'.req = r.req

\* the pending requests of handler op
InFlight(op) == {r \in inflight : r.req.op = op}

----------------------------------------------------------------------------
(* C21 *)

\* C21: requests for one email act on the ticket table as if handled one at a
\* time. Handled one at a time, a register_user that succeeds removes the ticket
\* it verified, so that no send_verification for the email succeeds between the
\* check and the removal: when a register_user answers success, the ticket that
\* is under lower(email) and that it removes is the ticket it read and checked.
C21_SerializedPerKey ==
    [][ \A r \in InFlight("register_user") :
          (Answers(r) /\ last'.success)
          => /\ Lower(r.req.email) \in DOMAIN verification_codes
             /\ verification_codes[Lower(r.req.email)] = r.stored_data
             /\ Lower(r.req.email) \notin DOMAIN verification_codes' ]_vars

----------------------------------------------------------------------------
(* C22 *)

\* C22: a send_verification whose mail fails removes from under lower(email)
\* only the ticket it stored itself: if another request has stored a different
\* ticket there meanwhile, that ticket is still there when the failing request has
\* answered.
C22_RollbackOwnTicketOnly ==
    [][ \A r \in InFlight("send_verification") :
          ( /\ Answers(r)
            /\ ~last'.success
            /\ Lower(r.req.email) \in DOMAIN verification_codes
            /\ verification_codes[Lower(r.req.email)] # r.stored_data )
          => /\ Lower(r.req.email) \in DOMAIN verification_codes'
             /\ verification_codes'[Lower(r.req.email)] =
                   verification_codes[Lower(r.req.email)] ]_vars

----------------------------------------------------------------------------
(* C23 *)

\* the messages of the outcomes register_user states: success, the validation
\* errors and the enumerated failure kinds
RedeemOutcomes ==
    {MsgRegistered, MsgFieldsRequired, MsgCodeRequired, MsgAlreadyRegistered,
     MsgCodeNotFound, MsgCodeExpired, MsgCodeMismatch, MsgDataMismatch,
     MsgRegistrationFailed}

\* C23: every answer of a register_user is one of the outcomes the handler
\* states, never the framework's answer to an exception the handler did not
\* catch, whatever other requests for the email do between its steps.
C23_NoUnhandledException ==
    [][ \A r \in InFlight("register_user") :
          Answers(r) => last'.message \in RedeemOutcomes ]_vars

----------------------------------------------------------------------------
(* C24 *)

\* C24: of two register_user requests that overlap, for the same email with the
\* same correct code and data, at most one succeeds. A register_user that was
\* already being handled when the other answered success answers with one of the
\* failure kinds the handler states, and leaves the one users row and the one
\* provider account the other created.
C24_OneRedeemWins ==
    [][ \A r \in InFlight("register_user") :
          ( /\ Answers(r)
            /\ last.req = r.req
            /\ last.success )
          => /\ ~last'.success
             /\ last'.message \in RedeemOutcomes
             /\ users' = users
             /\ firebase_users' = firebase_users
             /\ RecordCount(users', r.req.email) = 1
             /\ Lower(r.req.email) \in DOMAIN firebase_users' ]_vars

----------------------------------------------------------------------------
(* C25 *)

\* C25: the duplicate insert of the mirror is recovered. Every login_user whose
\* remote sign-in succeeded answers success and leaves exactly one users row for
\* its email, also when another login_user for the same unmirrored email
\* inserted the row between its lookup and its own insert.
C25_DuplicateInsertRecovered ==
    [][ \A r \in InFlight("login_user") :
          Answers(r)
          => /\ last'.success
             /\ last'.status = 200
             /\ RecordCount(users', r.req.email) = 1 ]_vars

----------------------------------------------------------------------------
(* C26 *)

\* C26: register_user is all-or-nothing across the two stores. A register_user
\* that answers a failure has created no provider account, and a register_user
\* whose create_user succeeded writes the users row and answers success, also
\* when a login_user mirrors the account between create_user and the INSERT.
C26_AllOrNothing ==
    [][ \A r \in InFlight("register_user") :
          Answers(r)
          => /\ (r.pc = "insert" => last'.success)
             /\ (~last'.success => r.pc # "insert")
             /\ (last'.success <=> RecordCount(users', r.req.email) = RecordCount(users, r.req.email) + 1) ]_vars

----------------------------------------------------------------------------
(* C27 *)

\* C27: register_user applies its checks in the order already registered, no
\* ticket, ticket expired, code wrong, data altered, and answers the first that
\* fails. In particular an expired ticket with a wrong code answers "expired"
\* and is removed, and a wrong code with altered data answers "invalid code"
\* and leaves the ticket table as it was.
C27_CheckOrder ==
    [][ ( /\ Handled("register_user")
          /\ FieldsGiven(last'.req)
          /\ last'.req.code # Missing )
        => LET req == last'.req
               key == Lower(req.email)
               registered == RecordCount(users, req.email) > 0
               held == key \in DOMAIN verification_codes
               ticket == verification_codes[key]
               expired == now > ticket.expires_at
               wrong == ticket.code # req.code
               altered == \/ ticket.name # req.name
                          \/ ticket.password # req.password
                          \/ ticket.phone # req.phone
           IN
           /\ registered => last'.message = MsgAlreadyRegistered
           /\ (~registered /\ ~held) => last'.message = MsgCodeNotFound
           /\ (~registered /\ held /\ expired)
              => /\ last'.message = MsgCodeExpired
                 /\ key \notin DOMAIN verification_codes'
           /\ (~registered /\ held /\ ~expired /\ wrong)
              => /\ last'.message = MsgCodeMismatch
                 /\ verification_codes' = verification_codes
           /\ (~registered /\ held /\ ~expired /\ ~wrong /\ altered)
              => last'.message = MsgDataMismatch ]_vars

\* a register_user with a wrong code and an altered name was answered "invalid
\* code", and the ticket is still held
C27_Witness ==
    /\ last.req.op = "register_user"
    /\ last.message = MsgCodeMismatch
    /\ Lower(last.req.email) \in DOMAIN verification_codes
    /\ verification_codes[Lower(last.req.email)].code # last.req.code
    /\ verification_codes[Lower(last.req.email)].name # last.req.name
    /\ now <= verification_codes[Lower(last.req.email)].expires_at

----------------------------------------------------------------------------
(* C28 *)

\* C28: a ticket stored at time t expires at t + 600 and its expiry is never
\* changed afterwards: a ticket appears or changes only by a send_verification
\* for its key, which sets expires_at to now + 600. A register_user that reaches
\* the ticket is answered "expired" exactly when now is after expires_at; at
\* now = expires_at the ticket is still valid.
C28_ExpiryWindow ==
    [][ /\ \A key \in DOMAIN verification_codes' :
             \/ /\ key \in DOMAIN verification_codes
                /\ verification_codes'[key] = verification_codes[key]
             \/ /\ Handled("send_verification")
                /\ Lower(last'.req.email) = key
                /\ verification_codes'[key].expires_at = now + 600
        /\ ( Handled("register_user") /\ ReachesTicket(last'.req) )
           => ( last'.message = MsgCodeExpired
                <=> now > verification_codes[Lower(last'.req.email)].expires_at ) ]_vars

\* a register_user handled at the very instant its ticket expires was not
\* answered "expired": the ticket is still held and was checked against the code
C28_Witness ==
    /\ last.req.op = "register_user"
    /\ last.message = MsgCodeMismatch
    /\ Lower(last.req.email) \in DOMAIN verification_codes
    /\ now = verification_codes[Lower(last.req.email)].expires_at

----------------------------------------------------------------------------
(* C29 *)

\* C29: the tickets of different emails are independent. A handled request
\* leaves every ticket but the one under lower(its email) as it was, neither
\* adding, removing nor changing it, and a login_user leaves the whole ticket
\* table as it was.
C29_TicketsIndependent ==
    [][ /\ \A op \in {"send_verification", "register_user", "login_user"} :
             Handled(op)
             => \A key \in (DOMAIN verification_codes \cup DOMAIN verification_codes')
                           \ {Lower(last'.req.email)} :
                   /\ key \in DOMAIN verification_codes
                   /\ key \in DOMAIN verification_codes'
                   /\ verification_codes'[key] = verification_codes[key]
        /\ Handled("login_user") => verification_codes' = verification_codes ]_vars

\* a register_user consumed the ticket of its email while the ticket of another
\* email stayed in the table
C29_Witness ==
    /\ last.req.op = "register_user"
    /\ last.success
    /\ Lower(last.req.email) \notin DOMAIN verification_codes
    /\ DOMAIN verification_codes # {}

----------------------------------------------------------------------------
(* C30 *)

\* C30: emails are compared without regard to case where accounts are
\* registered and logged in. The users table never holds two rows whose emails
\* are equal ignoring case, and a send_verification for an email that equals a
\* row's email ignoring case is refused with "Email already registered".
C30_CaseInsensitiveEmails ==
    /\ [](\A i, j \in 1..Len(users) :
             Lower(users[i].email) = Lower(users[j].email) => i = j)
    /\ [][ ( /\ Handled("send_verification")
             /\ FieldsGiven(last'.req)
             /\ \E i \in 1..Len(users) : Lower(users[i].email) = Lower(last'.req.email) )
           => /\ ~last'.success
              /\ last'.message = MsgAlreadyRegistered
              /\ verification_codes' = verification_codes ]_vars

----------------------------------------------------------------------------
(* C31 *)

\* C31: a row of the users table is never deleted or changed by
\* send_verification, register_user or login_user: every step leaves each
\* existing row in place with its id, name, email, password hash and phone. In
\* particular a login_user that the provider accepts with a password other than
\* the one hashed in the row leaves the hash as it was.
C31_RowsNeverChange ==
    [][ /\ Len(users') >= Len(users)
        /\ \A i \in 1..Len(users) : users'[i] = users[i] ]_vars

\* the provider accepted a login_user whose password is not the one hashed in
\* the row of its email
C31_Witness ==
    /\ last.req.op = "login_user"
    /\ last.success
    /\ last.remote.success
    /\ fetch_local_user(last.req.email)
    /\ TheUser(last.req.email).password # hash_password(last.req.password)

----------------------------------------------------------------------------
(* C32 *)

\* C32: with no web API key configured, login_user skips the provider: it makes
\* no call to it, inserts no users row, and answers from the users table alone,
\* success when a row with exactly the email holds the hash of the password, and
\* "Invalid credentials" with 401 otherwise.
C32_LocalOnlyLogin ==
    [][ ( /\ Handled("login_user")
          /\ ~FIREBASE_WEB_API_KEY
          /\ last'.req.email # Missing
          /\ last'.req.password # Missing )
        => /\ last'.calls = {}
           /\ last'.remote = NoFirebaseResult
           /\ users' = users
           /\ firebase_users' = firebase_users
           /\ last'.success
              <=> \E i \in 1..Len(users) :
                     /\ users[i].email = last'.req.email
                     /\ users[i].password = hash_password(last'.req.password)
           /\ last'.success => last'.status = 200
           /\ ~last'.success
              => last'.message = MsgInvalidCredentials /\ last'.status = 401 ]_vars

\* without a web API key, a login_user succeeded on the row a registration wrote
C32_Witness ==
    /\ ~FIREBASE_WEB_API_KEY
    /\ last.req.op = "login_user"
    /\ last.success
    /\ last.calls = {}
    /\ fetch_local_user(last.req.email)

----------------------------------------------------------------------------
(* C33 *)

----------------------------------------------------------------------------
(* C34 *)

\* this step is a restart of the process
Restarts == last.req.op # "start" /\ last'.req.op = "start"

\* C34: a restart drops every ticket and keeps the users table and the
\* provider's accounts. From then on the ticket table stays empty until a
\* send_verification succeeds, and while it is empty every register_user with
\* all fields and a code, for an email without a users row, is answered
\* "Verification code not found" and changes nothing. A login_user for a row
\* kept by the restart, with the password hashed in it, succeeds.
C34_RestartDropsTickets ==
    /\ [][ Restarts
           => /\ verification_codes' = <<>>
              /\ users' = users
              /\ firebase_users' = firebase_users ]_vars
    /\ [][ ( /\ DOMAIN verification_codes = {}
             /\ ~(Handled("send_verification") /\ last'.success) )
           => DOMAIN verification_codes' = {} ]_vars
    /\ [][ ( /\ DOMAIN verification_codes = {}
             /\ Handled("register_user")
             /\ FieldsGiven(last'.req)
             /\ last'.req.code # Missing
             /\ RecordCount(users, last'.req.email) = 0 )
           => /\ ~last'.success
              /\ last'.message = MsgCodeNotFound
              /\ last'.status = 400
              /\ users' = users
              /\ firebase_users' = firebase_users ]_vars
    /\ [][ ( /\ last.req.op = "start"
             /\ Handled("login_user")
             /\ \E i \in 1..Len(users) :
                   /\ users[i].email = last'.req.email
                   /\ users[i].password = hash_password(last'.req.password) )
           => /\ last'.success
              /\ last'.status = 200 ]_vars

\* a register_user was answered "not found" as the second request, at a time no
\* ticket is left although the first request stored one (time passes only while a
\* ticket is held): a restart dropped it
C34_Witness ==
    /\ requests = 2
    /\ now = TickStep
    /\ DOMAIN verification_codes = {}
    /\ last.req.op = "register_user"
    /\ last.message = MsgCodeNotFound
    /\ RecordCount(users, last.req.email) = 0

----------------------------------------------------------------------------
(* C35 *)

\* C35: registration never creates an account for the administrator's address.
\* No ticket is ever held under the lower-cased administrator address, and no
\* register_user adds a users row or a provider account whose email equals that
\* address ignoring case, although register_user itself never compares the
\* email with the administrator's.
C35_AdminNeverRegistered ==
    /\ [](Lower(ADMIN_EMAIL) \notin DOMAIN verification_codes)
    /\ [][ Handled("register_user")
           => /\ \A i \in (Len(users) + 1)..Len(users') :
                    Lower(users'[i].email) # Lower(ADMIN_EMAIL)
              /\ Lower(ADMIN_EMAIL) \notin (DOMAIN firebase_users' \ DOMAIN firebase_users)
              /\ Lower(last'.req.email) = Lower(ADMIN_EMAIL)
                 => /\ ~last'.success
                    /\ users' = users
                    /\ firebase_users' = firebase_users ]_vars

\* a register_user with all fields and a code for a case variant of the
\* administrator's address, which has no users row, found no ticket
C35_Witness ==
    /\ last.req.op = "register_user"
    /\ last.req.email # ADMIN_EMAIL
    /\ Lower(last.req.email) = Lower(ADMIN_EMAIL)
    /\ last.message = MsgCodeNotFound
    /\ RecordCount(users, last.req.email) = 0
    /\ requests > 1

----------------------------------------------------------------------------
(* The carts: the column cart of the users table and Firestore's collection carts *)

MsgEmailRequired == "Email is required"
MsgUserNotFound == "User not found"
MsgCartSaved == "Cart saved successfully"

\* the carts a client sends: JSON arrays of product ids
Carts == {<<>>, <<"1">>, <<"2", "1">>}

\* the emails of the cart requests: the one of the users row, a case variant of it
\* that has no row, and none
CartEmails == {"U@x.com", "u@x.com", Missing}

RECURSIVE JoinItems(_)
\* the items of a JSON array, separated as json.dumps separates them
JoinItems(items) ==
    IF items = <<>> THEN ""
    ELSE IF Len(items) = 1 THEN items[1]
    ELSE items[1] \o ", " \o JoinItems(Tail(items))

\* json.dumps(cart_data): the text stored in the column cart
json_dumps(cart_data) == "[" \o JoinItems(cart_data) \o "]"

\* json.loads(text): the array that text spells
json_loads(text) == CHOOSE cart_data \in Carts : json_dumps(cart_data) = text

CartRequest(op, email, cart) == [op |-> op, email |-> email, cart |-> cart]

CartResponse(req, success, message, status, cart) ==
    [req |-> req, success |-> success, message |-> message, status |-> status, cart |-> cart]

\* UPDATE users SET cart = ? WHERE email = ?
UpdateCart(email, cart_json) ==
    [i \in 1..Len(users) |->
        IF users[i].email = email THEN [users[i] EXCEPT !.cart = cart_json] ELSE users[i]]

\* doc_ref.set({'cart': cart_data, 'updated_at': ...}, merge=True) on the document
\* of email.lower(); updated_at is read nowhere and is left out
SetCartDocument(email, cart_data) ==
    [k \in DOMAIN firestore_carts \cup {Lower(email)} |->
        IF k = Lower(email) THEN [cart |-> cart_data] ELSE firestore_carts[k]]

\* POST /api/cart/save
save_cart(email, cart_data) ==
    LET req == CartRequest("save_cart", email, cart_data) IN
    /\ UNCHANGED <<verification_codes, firebase_users, FIREBASE_WEB_API_KEY, now, orders>>
    /\ IF email = Missing
       THEN /\ last' = CartResponse(req, FALSE, MsgEmailRequired, 400, <<>>)
            /\ UNCHANGED <<users, firestore_carts>>
       ELSE IF ~fetch_local_user(email)
       THEN /\ last' = CartResponse(req, FALSE, MsgUserNotFound, 404, <<>>)
            /\ UNCHANGED <<users, firestore_carts>>
       ELSE /\ users' = UpdateCart(email, json_dumps(cart_data))
            \* synced: the write to Firestore raised nothing; an error is only logged
            /\ \E synced \in BOOLEAN :
                  firestore_carts' = IF synced THEN SetCartDocument(email, cart_data)
                                     ELSE firestore_carts
            /\ last' = CartResponse(req, TRUE, MsgCartSaved, 200, <<>>)

\* GET /api/cart/load
load_cart(email) ==
    LET req == CartRequest("load_cart", email, <<>>) IN
    /\ UNCHANGED <<verification_codes, users, firebase_users, FIREBASE_WEB_API_KEY, now,
                   firestore_carts, orders>>
    /\ IF email = Missing
       THEN last' = CartResponse(req, FALSE, MsgEmailRequired, 400, <<>>)
       ELSE \* answered: the read of the Firestore document raised nothing
            \E answered \in BOOLEAN :
              LET cart_data == IF answered /\ Lower(email) \in DOMAIN firestore_carts
                               THEN firestore_carts[Lower(email)].cart
                               ELSE <<>>
              IN
              IF cart_data # <<>>
              THEN last' = CartResponse(req, TRUE, Missing, 200, cart_data)
              ELSE IF ~fetch_local_user(email)
              THEN last' = CartResponse(req, FALSE, MsgUserNotFound, 404, <<>>)
              ELSE last' = CartResponse(req, TRUE, Missing, 200,
                                        json_loads(TheUser(email).cart))

SaveCart == \E email \in CartEmails, cart_data \in Carts : save_cart(email, cart_data)

LoadCart == \E email \in CartEmails : load_cart(email)

\* the cart requests start on the deployment that holds a users row
InitCart == Init /\ users = LegacyRows

NextCart ==
    \/ Handle(SaveCart)
    \/ Handle(LoadCart)

SpecCart == InitCart /\ [][NextCart]_vars

----------------------------------------------------------------------------
(* C36 *)

\* C36: a load_cart that directly follows a successful save_cart for the same
\* email answers success with the cart that save_cart was given, the empty cart
\* included, whether or not the Firestore write of this or of an earlier
\* save_cart failed.
C36_CartRoundTrip ==
    [][ ( /\ last.req.op = "save_cart"
          /\ last.success
          /\ Handled("load_cart")
          /\ last'.req.email = last.req.email )
        => /\ last'.success
           /\ last'.cart = last.req.cart ]_vars

----------------------------------------------------------------------------
(* The orders table *)

MsgStatusRequired == "Status is required"
MsgInvalidStatus == "Invalid status"
MsgOrderNotFound == "Order not found"
\* create_order answers the order itself, and str(e) on an error
MsgOrderCreated == "created"
MsgOrderError == "error"
\* "Order status updated to " followed by the new status
MsgStatusUpdated == "Order status updated"
MsgOrderDeleted == "Order deleted successfully"
MsgSalesReset == "All orders deleted and sales reset"

\* a list of accepted statuses that also takes "refunded"
valid_statuses_Open ==
    {"pending", "processing", "shipped", "delivered", "cancelled", "refunded"}

\* valid_statuses of update_order_status
valid_statuses == {"pending", "processing", "shipped", "delivered", "cancelled"}

\* the order numbers create_order may generate (a timestamp and nine random
\* characters) and clients may name
OrderNumbers == {"ORD-1", "ORD-2"}

\* the statuses clients submit: the accepted ones, one that is not, and none
StatusInputs == valid_statuses \cup {"refunded", Missing}

OrderRequest(op, order_number, new_status) ==
    [op |-> op, order_number |-> order_number, new_status |-> new_status]

OrderResponse(req, success, message, status) ==
    [req |-> req, success |-> success, message |-> message, status |-> status]

\* the rows of orders with this order_number
OrderRows(order_number) == {i \in 1..Len(orders) : orders[i].order_number = order_number}

\* UPDATE orders SET status = ? WHERE order_number = ?
UpdateStatus(order_number, new_status) ==
    [i \in 1..Len(orders) |->
        IF orders[i].order_number = order_number
        THEN [orders[i] EXCEPT !.status = new_status] ELSE orders[i]]

\* DELETE FROM orders WHERE order_number = ?
DeleteOrder(order_number) == SelectSeq(orders, LAMBDA row : row.order_number # order_number)

\* POST /api/orders. complete: the body holds every field the INSERT reads; the
\* columns other than order_number, customer_email and status play no part in
\* the handlers modelled and are left out
create_order(customer_email, complete) ==
    \* order_number: the number generated for this order
    \E order_number \in OrderNumbers :
      LET req == OrderRequest("create_order", order_number, Missing) IN
      /\ UNCHANGED <<verification_codes, users, firebase_users, FIREBASE_WEB_API_KEY, now,
                     firestore_carts>>
      /\ IF ~complete \/ OrderRows(order_number) # {}
         THEN \* KeyError, or IntegrityError on the UNIQUE order_number
              /\ last' = OrderResponse(req, FALSE, MsgOrderError, 500)
              /\ UNCHANGED orders
         ELSE /\ orders' = Append(orders, [order_number |-> order_number,
                                           customer_email |-> customer_email,
                                           status |-> "pending"])
              /\ last' = OrderResponse(req, TRUE, MsgOrderCreated, 200)

\* PUT /api/orders/<order_number>/status
update_order_status(order_number, new_status) ==
    LET req == OrderRequest("update_order_status", order_number, new_status) IN
    /\ UNCHANGED <<verification_codes, users, firebase_users, FIREBASE_WEB_API_KEY, now,
                   firestore_carts>>
    /\ IF new_status = Missing
       THEN /\ last' = OrderResponse(req, FALSE, MsgStatusRequired, 400)
            /\ UNCHANGED orders
       ELSE IF new_status \notin valid_statuses
       THEN /\ last' = OrderResponse(req, FALSE, MsgInvalidStatus, 400)
            /\ UNCHANGED orders
       ELSE IF OrderRows(order_number) = {}
       THEN /\ last' = OrderResponse(req, FALSE, MsgOrderNotFound, 404)
            /\ UNCHANGED orders
       ELSE /\ orders' = UpdateStatus(order_number, new_status)
            /\ last' = OrderResponse(req, TRUE, MsgStatusUpdated, 200)

\* DELETE /api/orders/<order_number>
delete_order(order_number) ==
    LET req == OrderRequest("delete_order", order_number, Missing) IN
    /\ UNCHANGED <<verification_codes, users, firebase_users, FIREBASE_WEB_API_KEY, now,
                   firestore_carts>>
    /\ IF OrderRows(order_number) = {}
       THEN /\ last' = OrderResponse(req, FALSE, MsgOrderNotFound, 404)
            /\ UNCHANGED orders
       ELSE /\ orders' = DeleteOrder(order_number)
            /\ last' = OrderResponse(req, TRUE, MsgOrderDeleted, 200)

\* POST /api/orders/reset
reset_sales ==
    /\ UNCHANGED <<verification_codes, users, firebase_users, FIREBASE_WEB_API_KEY, now,
                   firestore_carts>>
    /\ orders' = <<>>
    /\ last' = OrderResponse(OrderRequest("reset_sales", Missing, Missing),
                             TRUE, MsgSalesReset, 200)

CreateOrder == \E complete \in BOOLEAN : create_order("u@x.com", complete)

UpdateOrderStatus ==
    \E order_number \in OrderNumbers, new_status \in StatusInputs :
        update_order_status(order_number, new_status)

DeleteOrderRequest == \E order_number \in OrderNumbers : delete_order(order_number)

NextOrders ==
    \/ Handle(CreateOrder)
    \/ Handle(UpdateOrderStatus)
    \/ Handle(DeleteOrderRequest)
    \/ Handle(reset_sales)

SpecOrders == Init /\ [][NextOrders]_vars

----------------------------------------------------------------------------
(* C37 *)

\* C37: the status of every stored order is one of pending, processing,
\* shipped, delivered, cancelled. create_order stores its order as pending and
\* leaves the others as they are; update_order_status answers 400 to any other
\* status and 404 to an order number no order has, and in both cases changes no
\* order.
C37_OrderStatusesValid ==
    /\ [](\A i \in 1..Len(orders) :
             orders[i].status \in {"pending", "processing", "shipped", "delivered", "cancelled"})
    /\ [][ (Handled("create_order") /\ last'.success)
           => /\ orders' = Append(orders, orders'[Len(orders')])
              /\ orders'[Len(orders')].status = "pending" ]_vars
    /\ [][ ( /\ Handled("update_order_status")
             /\ last'.req.new_status \notin
                   {"pending", "processing", "shipped", "delivered", "cancelled"} )
           => /\ last'.status = 400
              /\ orders' = orders ]_vars
    /\ [][ ( /\ Handled("update_order_status")
             /\ last'.req.new_status \in
                   {"pending", "processing", "shipped", "delivered", "cancelled"}
             /\ \A i \in 1..Len(orders) : orders[i].order_number # last'.req.order_number )
           => /\ last'.status = 404
              /\ orders' = orders ]_vars

\* an order that was moved on from pending, and an update_order_status of it to
\* a status outside the list that was answered 400
C37_Witness ==
    /\ last.req.op = "update_order_status"
    /\ last.req.new_status = "refunded"
    /\ last.status = 400
    /\ \E i \in 1..Len(orders) :
          /\ orders[i].order_number = last.req.order_number
          /\ orders[i].status = "shipped"

====
